---- MODULE Spec2Model ----
\* Model of scripts/trim-low-abund.py: the Trimmer generator and the two-pass
\* driver in main().  The counting table, the record-pairing reader and the
\* record writer live in the khmer package outside src/ and are modelled from
\* their contract.
EXTENDS Integers, Sequences, FiniteSets

\* ------------------------------------------------------------------ bounds
\* Raw records read from all input files of one run.
MaxReads == 2
\* Input files named on the command line.
MaxFiles == 2

\* ------------------------------------------------------- program constants
DEFAULT_NORMALIZE_LIMIT == 20
DEFAULT_CUTOFF == 2

\* --------------------------------------------------------------- inputs
\* The scenario-A read AAAACCCCAAAACCCC.
ScenarioRead ==
    << "A","A","A","A","C","C","C","C","A","A","A","A","C","C","C","C" >>

\* The command lines explored: -k / -C / -Z.  The last one is scenario A.
Profiles ==
    [K : {2}, cutoff : {0, 1}, normalize_limit : {1, 3}]
    \cup {[K |-> 4, cutoff |-> DEFAULT_CUTOFF,
           normalize_limit |-> DEFAULT_NORMALIZE_LIMIT]}

\* Sequences a record of an input file may carry under k-mer size k.
SeqPool(k) ==
    IF k = 4 THEN {ScenarioRead}
    ELSE { <<"A">>, <<"A","A","C">>, <<"A","N","C","C">>, <<"C","C","C">> }

\* Sequences of the two mates of a paired record.
PairPool(k) ==
    IF k = 4 THEN {<< ScenarioRead, ScenarioRead >>}
    ELSE { << <<"A","A","C">>, <<"A","N","C","C">> >>,
           << <<"A","A","C">>, <<"C","C","C">> >>,
           << <<"A">>, <<"A","A","C">> >> }

\* The sequence a table given with --loadtable has consumed.
LoadedRead == << "A","A","C" >>

\* Cutoffs compared by the relational properties.
CutoffRange == 0..2

VARIABLES
    args,            \* parsed command line
    pc,              \* position of main()
    ct,              \* the countgraph: k-mer -> count
    n_reads, n_bp, trimmed_reads, n_saved, n_skipped, bp_skipped,  \* Trimmer
    units,           \* what the paired reader has still to yield
    cur,             \* the Trimmer generator between two yields
    fileIdx,         \* index of the file / store being processed
    n_start,         \* main's n_start
    pass2list,       \* main's pass2list
    stores,          \* the .pass2 files in tempdir
    tempdir,         \* "none", "created", "removed"
    sinks,           \* output files: sink -> records written
    outfiles,        \* output files opened for writing so far
    written_bp, written_reads, save_pass2_total,   \* main's counters
    report,          \* what main prints at the end
    nraw,            \* raw records read so far (bounded by MaxReads)
    delivered,       \* history: units the pass-1 reader handed to the Trimmer
    consumedLog,     \* history: names of the reads consumed into ct
    spilllog,        \* history: names of the reads written to a spill file
    outlog           \* history: every write to an output sink

trimmerVars == << n_reads, n_bp, trimmed_reads, n_saved, n_skipped, bp_skipped >>
mainVars == << written_bp, written_reads, save_pass2_total, report, n_start >>
histVars == << delivered, consumedLog, spilllog, outlog >>
vars == << args, pc, ct, trimmerVars, units, cur, fileIdx, pass2list, stores,
           tempdir, sinks, outfiles, mainVars, nraw, histVars >>

\* ------------------------------------------------------------- helpers
Range(s) == {s[i] : i \in DOMAIN s}

RECURSIVE SumLen(_)
SumLen(seqs) ==
    IF seqs = <<>> THEN 0 ELSE Len(Head(seqs)) + SumLen(Tail(seqs))

\* len(record) is the length of its sequence (screed Record.__len__).
RecLen(read) == Len(read.sequence)

\* A record as the parser builds it; quality is present in FASTQ input only.
MkRecord(name, sequence, hasq) ==
    [name |-> name, sequence |-> sequence, hasq |-> hasq,
     quality |-> IF hasq THEN [i \in 1..Len(sequence) |-> i] ELSE <<>>]

\* ------------------------------------------------------ countgraph (oracle)
ksize == args.K

Count(table, kmer) == IF kmer \in DOMAIN table THEN table[kmer] ELSE 0

\* The K-length windows of a sequence, by start position (1-based here).
Kmers(seq) ==
    IF Len(seq) < ksize THEN <<>>
    ELSE [i \in 1..(Len(seq) - ksize + 1) |-> SubSeq(seq, i, i + ksize - 1)]

WindowCounts(table, seq) ==
    LET ks == Kmers(seq) IN [i \in DOMAIN ks |-> Count(table, ks[i])]

\* graph.get_median_count(seq)[0]: the median of the window counts
\* (element n \div 2 of the sorted counts).
get_median_count(table, seq) ==
    LET cs == WindowCounts(table, seq)
        n == Len(cs)
        mid == n \div 2
    IN IF n = 0 THEN 0
       ELSE CHOOSE v \in Range(cs) :
              /\ Cardinality({i \in DOMAIN cs : cs[i] < v}) <= mid
              /\ Cardinality({i \in DOMAIN cs : cs[i] <= v}) > mid

\* graph.consume(seq): one increment per window occurrence.
consume(table, seq) ==
    LET ks == Kmers(seq) IN
    [k \in (DOMAIN table) \cup Range(ks) |->
        Count(table, k) + Cardinality({i \in DOMAIN ks : ks[i] = k})]

\* The consume calls of the loop over zip(reads, examine), in order.
RECURSIVE ConsumeEach(_, _)
ConsumeEach(table, kept) ==
    IF kept = <<>> THEN table
    ELSE ConsumeEach(consume(table, Head(kept).seq), Tail(kept))

\* graph.trim_on_abundance(seq, cutoff)[1]: the first window-start position
\* (0-based) whose abundance is <= cutoff, else len(seq).
trim_on_abundance(table, seq, cutoff) ==
    LET cs == WindowCounts(table, seq)
        low == {i \in DOMAIN cs : cs[i] <= cutoff}
    IN IF low = {} THEN Len(seq)
       ELSE (CHOOSE i \in low : \A j \in low : i <= j) - 1

\* ------------------------------------------------------------ reader/writer
\* check_is_pair: adjacent records named x/1 and x/2.
IsPair(r1, r2) ==
    /\ r1.name.mate = 1 /\ r2.name.mate = 2
    /\ r1.name.file = r2.name.file /\ r1.name.n = r2.name.n

\* broken_paired_reader(records, min_length, force_single): the units it yields.
RECURSIVE broken_paired_reader(_, _, _)
broken_paired_reader(records, min_length, force_single) ==
    IF records = <<>> THEN <<>>
    ELSE IF /\ Len(records) >= 2
            /\ ~force_single
            /\ IsPair(records[1], records[2])
            /\ RecLen(records[1]) >= min_length
            /\ RecLen(records[2]) >= min_length
         THEN << [is_pair |-> TRUE, reads |-> << records[1], records[2] >>] >>
              \o broken_paired_reader(Tail(Tail(records)), min_length, force_single)
         ELSE (IF RecLen(records[1]) >= min_length
               THEN << [is_pair |-> FALSE, reads |-> << records[1] >>] >>
               ELSE <<>>)
              \o broken_paired_reader(Tail(records), min_length, force_single)

\* write_record(read, fp) followed by screed.open(...): the record is written
\* as name / sequence / quality lines and parsed back from them.
write_record(read) ==
    IF read.hasq
    THEN << "@", read.name, read.sequence, "+", read.quality >>
    ELSE << ">", read.name, read.sequence >>

parse_record(entry) ==
    IF entry[1] = "@"
    THEN [name |-> entry[2], sequence |-> entry[3], hasq |-> TRUE,
          quality |-> entry[5]]
    ELSE [name |-> entry[2], sequence |-> entry[3], hasq |-> FALSE,
          quality |-> <<>>]

ParseAll(entries) == [i \in DOMAIN entries |-> parse_record(entries[i])]

\* ----------------------------------------------------------------- Trimmer
\* read.sequence.replace('N', 'A')
Clean(seq) == [i \in DOMAIN seq |-> IF seq[i] = "N" THEN "A" ELSE seq[i]]

trim_record(read, trim_at) ==
    [name |-> read.name,
     sequence |-> SubSeq(read.sequence, 1, trim_at),
     hasq |-> read.hasq,
     quality |-> IF read.hasq THEN SubSeq(read.quality, 1, trim_at) ELSE <<>>]

\* Variant: a median equal to the limit counts as low coverage.
is_low_coverage_le(table, examine, limit) ==
    \E i \in DOMAIN examine : get_median_count(table, examine[i]) <= limit

is_low_coverage(table, examine, limit) ==
    \E i \in DOMAIN examine : get_median_count(table, examine[i]) < limit

\* Variant: the deferral branch is never taken.
DeferBranch_never(low, saver) == FALSE

\* Variant: the saver is not tested.
DeferBranch_nosaver(low, saver) == low

\* `if is_low_coverage and saver`
DeferBranch(low, saver) == low /\ saver

\* Variant: do_trim_low_abund is not tested.
SkipBranch_low(low, do_trim_low_abund) == low

\* `elif is_low_coverage and not self.do_trim_low_abund`
SkipBranch(low, do_trim_low_abund) == low /\ ~do_trim_low_abund

\* Variant: the read is cut at whatever position the table reports.
TrimApplies_always(trim_at, k) == TRUE

\* `if trim_at >= K`
TrimApplies(trim_at, k) == trim_at >= k

\* Variant: every read that passes the floor counts as trimmed.
CountsAsTrimmed_always(trim_at, seq) == TRUE

\* Variant: the position is compared with K instead of the read's length.
CountsAsTrimmed_k(trim_at, seq) == trim_at # ksize

\* `if trim_at != len(seq)`
CountsAsTrimmed(trim_at, seq) == trim_at # Len(seq)

\* Variant: the cleaned sequence is what gets trimmed and yielded.
TrimOne_cleaned(table, read, seq, cutoff) ==
    LET trim_at == trim_on_abundance(table, seq, cutoff)
        cleaned == [read EXCEPT !.sequence = seq]
    IN
    IF TrimApplies(trim_at, ksize)
    THEN [read |-> trim_record(cleaned, trim_at),
          counted |-> CountsAsTrimmed(trim_at, seq)]
    ELSE [read |-> cleaned, counted |-> FALSE]

\* One pass of the trim loop body for one read: the read yielded and whether
\* trimmed_reads is incremented.
TrimOne(table, read, seq, cutoff) ==
    LET trim_at == trim_on_abundance(table, seq, cutoff) IN
    IF TrimApplies(trim_at, ksize)
    THEN [read |-> trim_record(read, trim_at),
          counted |-> CountsAsTrimmed(trim_at, seq)]
    ELSE [read |-> read, counted |-> FALSE]

\* Variant: one base per skipped read.
SkippedBases_one(read) == 1

\* `self.bp_skipped += len(read)`
SkippedBases(read) == RecLen(read)

\* Variant: one count per unit instead of one per member.
SeenReads_unit(reads) == 1

\* `self.n_reads += 1` / `self.n_bp += len(r)` for every member, in every call.
SeenReads(reads) == Len(reads)
SeenBases(examine) == SumLen(examine)

\* Variant: only the first member is taken.
Zip_first(reads, examine) ==
    IF reads = <<>> \/ examine = <<>> THEN <<>>
    ELSE << [read |-> reads[1], seq |-> examine[1]] >>

\* `zip(reads, examine)`
Zip(reads, examine) ==
    [i \in 1..(IF Len(reads) < Len(examine) THEN Len(reads) ELSE Len(examine))
        |-> [read |-> reads[i], seq |-> examine[i]]]

\* Variant: the spill file is handed over in both passes.
Saver_always(pass) == TRUE

\* Variant: no spill file is handed over in either pass.
Saver_never(pass) == FALSE

\* The saver main hands to the Trimmer: pass2fp in pass 1 (line 248), None in
\* pass 2 (line 286).
Saver(pass) == (pass = "pass1")

Idle == [branch |-> "none", todo |-> <<>>]

\* -------------------------------------------------------------------- main
\* `trimfp`: the per-file .abundtrim file object, or args.out for every file.
SinkOf(i) == IF args.out THEN 0 ELSE i

\* `pass2filename`: tempdir joined with the basename of the input file and
\* '.pass2'.  Input files of different directories may share a basename and
\* then share the path of their spill file.
StoreOf(i) == IF args.samebase THEN 1 ELSE i

Init ==
    /\ args \in { [K |-> p.K, cutoff |-> p.cutoff,
                   normalize_limit |-> p.normalize_limit,
                   variable_coverage |-> v, ignore_pairs |-> g, out |-> o,
                   fastq |-> q, nfiles |-> n, dup |-> d, loadtable |-> l,
                   samebase |-> b] :
                  p \in Profiles, v \in BOOLEAN, g \in BOOLEAN, o \in BOOLEAN,
                  q \in BOOLEAN, n \in 1..MaxFiles, d \in BOOLEAN,
                  l \in BOOLEAN, b \in BOOLEAN }
    /\ args.dup => (args.nfiles = 2 /\ ~args.fastq
                    /\ ~args.ignore_pairs /\ ~args.variable_coverage
                    /\ ~args.loadtable /\ ~args.samebase)
    /\ args.samebase => (args.nfiles >= 2 /\ ~args.fastq
                         /\ ~args.ignore_pairs /\ ~args.loadtable
                         /\ args.K = 2)
    /\ args.loadtable => args.K = 2
    /\ args.out => args.nfiles >= 2
    /\ pc = "start"
    /\ ct = << >>
    /\ n_reads = 0 /\ n_bp = 0 /\ trimmed_reads = 0
    /\ n_saved = 0 /\ n_skipped = 0 /\ bp_skipped = 0
    /\ units = <<>>
    /\ cur = Idle
    /\ fileIdx = 0
    /\ n_start = 0
    /\ pass2list = <<>>
    /\ stores = <<>>
    /\ tempdir = "none"
    /\ sinks = [s \in 0..MaxFiles |-> <<>>]
    /\ outfiles = IF args.out THEN {0} ELSE {}
    /\ written_bp = 0 /\ written_reads = 0 /\ save_pass2_total = 0
    /\ report = << >>
    /\ nraw = 0
    /\ delivered = <<>> /\ consumedLog = <<>> /\ spilllog = <<>>
    /\ outlog = <<>>

\* Lines 191-227: the duplicate-filename check, then the countgraph (loaded or
\* new), the temp
\* directory and the Trimmer are created.
Startup ==
    /\ pc = "start"
    /\ IF args.dup
       THEN pc' = "exit1" /\ UNCHANGED << tempdir, ct >>
       ELSE /\ pc' = "pass1_next"
            /\ tempdir' = "created"
            /\ ct' = IF args.loadtable THEN consume(<< >>, LoadedRead)
                     ELSE << >>
    /\ UNCHANGED << args, trimmerVars, units, cur, fileIdx, pass2list,
                    stores, sinks, outfiles, mainVars, nraw, histVars >>

\* Lines 230-246: the next input file is opened, with its output file and its
\* spill file; open(pass2filename, 'w') creates the spill file or, when the
\* path exists already, truncates it.
OpenInput ==
    /\ pc = "pass1_next"
    /\ fileIdx < args.nfiles
    /\ fileIdx' = fileIdx + 1
    /\ pass2list' = Append(pass2list, [store |-> StoreOf(fileIdx + 1),
                                       trimfp |-> SinkOf(fileIdx + 1)])
    /\ outfiles' = outfiles \cup {SinkOf(fileIdx + 1)}
    /\ stores' = IF StoreOf(fileIdx + 1) \in DOMAIN stores
                 THEN [stores EXCEPT ![StoreOf(fileIdx + 1)] =
                          [state |-> "writing", entries |-> <<>>]]
                 ELSE Append(stores, [state |-> "writing", entries |-> <<>>])
    /\ n_start' = n_reads
    /\ pc' = "pass1"
    /\ UNCHANGED << args, ct, trimmerVars, units, cur, tempdir, sinks,
                    written_bp, written_reads, save_pass2_total, report,
                    nraw, histVars >>

\* The records the parser reads next from the current input file: one record,
\* or two adjacent records named as mates.
Chunks ==
    LET pool == SeqPool(ksize)
        name(m) == [file |-> fileIdx, n |-> nraw + 1, mate |-> m]
    IN { << MkRecord(name(0), s, args.fastq) >> : s \in pool }
       \cup { << MkRecord(name(1), s[1], args.fastq),
                 MkRecord(name(2), s[2], args.fastq) >> : s \in PairPool(ksize) }

\* Line 131, pass 1: the paired reader pulls records from the input file.
ReadInput ==
    /\ pc = "pass1"
    /\ cur.todo = <<>> /\ units = <<>>
    /\ \E chunk \in Chunks :
         /\ nraw + Len(chunk) <= MaxReads
         /\ nraw' = nraw + Len(chunk)
         /\ units' = broken_paired_reader(chunk, ksize, args.ignore_pairs)
    /\ UNCHANGED << args, pc, ct, trimmerVars, cur, fileIdx, pass2list,
                    stores, tempdir, sinks, outfiles, mainVars, histVars >>

\* Lines 131-162: the Trimmer takes the next unit, counts its members, decides
\* whether it is low coverage and, with a saver, keeps it for the second pass.
Examine ==
    /\ pc \in {"pass1", "pass2"}
    /\ cur.todo = <<>> /\ units # <<>>
    /\ LET reads == Head(units).reads
           examine == [i \in DOMAIN reads |-> Clean(reads[i].sequence)]
           saver == Saver(pc)
           low == is_low_coverage(ct, examine, args.normalize_limit)
           kept == Zip(reads, examine)
       IN /\ units' = Tail(units)
          /\ n_reads' = n_reads + SeenReads(reads)
          /\ n_bp' = n_bp + SeenBases(examine)
          /\ delivered' = IF pc = "pass1" THEN Append(delivered, Head(units))
                          ELSE delivered
          /\ IF DeferBranch(low, saver)
             THEN /\ ct' = ConsumeEach(ct, kept)
                  /\ stores' = [stores EXCEPT ![pass2list[fileIdx].store].entries =
                                  @ \o [i \in DOMAIN kept |-> write_record(kept[i].read)]]
                  /\ n_saved' = n_saved + Len(kept)
                  /\ consumedLog' = consumedLog
                                       \o [i \in DOMAIN kept |-> kept[i].read.name]
                  /\ spilllog' = spilllog
                                    \o [i \in DOMAIN kept |-> kept[i].read.name]
                  /\ cur' = Idle
             ELSE /\ cur' = IF SkipBranch(low, ~args.variable_coverage)
                            THEN [branch |-> "skip",
                                  todo |-> [i \in DOMAIN reads |->
                                              [read |-> reads[i], seq |-> examine[i]]]]
                            ELSE [branch |-> "trim", todo |-> kept]
                  /\ UNCHANGED << ct, stores, n_saved, consumedLog, spilllog >>
    /\ UNCHANGED << args, pc, trimmed_reads, n_skipped, bp_skipped, fileIdx,
                    pass2list, tempdir, sinks, outfiles, mainVars, nraw,
                    outlog >>

\* Lines 166-181 up to the next yield, and the body of main's loop that
\* receives the read (lines 249-251 in pass 1, 287-288 in pass 2).
Yield ==
    /\ pc \in {"pass1", "pass2"}
    /\ cur.todo # <<>>
    /\ LET read == Head(cur.todo).read
           seq == Head(cur.todo).seq
           t == TrimOne(ct, read, seq, args.cutoff)
           out == IF cur.branch = "skip" THEN read ELSE t.read
           trimfp == pass2list[fileIdx].trimfp
       IN /\ IF cur.branch = "skip"
             THEN /\ n_skipped' = n_skipped + 1
                  /\ bp_skipped' = bp_skipped + SkippedBases(read)
                  /\ UNCHANGED trimmed_reads
             ELSE /\ trimmed_reads' = trimmed_reads + (IF t.counted THEN 1 ELSE 0)
                  /\ UNCHANGED << n_skipped, bp_skipped >>
          /\ sinks' = [sinks EXCEPT ![trimfp] = Append(@, out)]
          /\ written_bp' = IF pc = "pass1" THEN written_bp + RecLen(out)
                           ELSE written_bp
          /\ written_reads' = written_reads + 1
          /\ outlog' = Append(outlog, [name |-> read.name, pass |-> pc,
                                       sink |-> trimfp, original |-> read,
                                       written |-> out])
          /\ cur' = IF Len(cur.todo) = 1 THEN Idle
                    ELSE [cur EXCEPT !.todo = Tail(@)]
    /\ UNCHANGED << args, pc, ct, n_reads, n_bp, n_saved, units, fileIdx,
                    pass2list, stores, tempdir, outfiles, save_pass2_total,
                    report, n_start, nraw, delivered, consumedLog, spilllog >>

\* Lines 252-266: the input file is exhausted; the spill file is closed and
\* the per-file line is printed.
CloseInput ==
    /\ pc = "pass1"
    /\ cur.todo = <<>> /\ units = <<>>
    /\ stores' = [stores EXCEPT ![pass2list[fileIdx].store].state = "closed"]
    /\ save_pass2_total' = save_pass2_total + n_saved
    /\ report' = Append(report, [file |-> fileIdx, save_pass2 |-> n_saved,
                                 n |-> n_reads - n_start])
    /\ pc' = "pass1_next"
    /\ UNCHANGED << args, ct, trimmerVars, units, cur, fileIdx, pass2list,
                    tempdir, sinks, outfiles, written_bp, written_reads,
                    n_start, nraw, histVars >>

\* Lines 270-271: the assertions between the passes.
BeginPass2 ==
    /\ pc = "pass1_next"
    /\ fileIdx = args.nfiles
    /\ pc' = IF n_skipped = 0 /\ bp_skipped = 0 THEN "pass2_next"
             ELSE "assertion_error"
    /\ fileIdx' = 0
    /\ UNCHANGED << args, ct, trimmerVars, units, cur, pass2list, stores,
                    tempdir, sinks, outfiles, mainVars, nraw, histVars >>

\* Lines 272-284: the next spill file is opened for reading, every record a
\* single unit; screed.open raises when the path is gone.
OpenStore ==
    /\ pc = "pass2_next"
    /\ fileIdx < Len(pass2list)
    /\ LET s == pass2list[fileIdx + 1].store
       IN IF stores[s].state = "deleted"
          THEN /\ pc' = "io_error"
               /\ UNCHANGED << fileIdx, stores, units >>
          ELSE /\ fileIdx' = fileIdx + 1
               /\ stores' = [stores EXCEPT ![s].state = "reading"]
               /\ units' = broken_paired_reader(ParseAll(stores[s].entries),
                                                ksize, TRUE)
               /\ pc' = "pass2"
    /\ UNCHANGED << args, ct, trimmerVars, cur, pass2list, tempdir, sinks,
                    outfiles, mainVars, nraw, histVars >>

\* Lines 294-295: the spill file has been read to its end and is removed.
UnlinkStore ==
    /\ pc = "pass2"
    /\ cur.todo = <<>> /\ units = <<>>
    /\ stores' = [stores EXCEPT ![pass2list[fileIdx].store] =
                     [state |-> "deleted", entries |-> <<>>]]
    /\ pc' = "pass2_next"
    /\ UNCHANGED << args, ct, trimmerVars, units, cur, fileIdx, pass2list,
                    tempdir, sinks, outfiles, mainVars, nraw, histVars >>

\* Lines 297-317: the temp directory is removed and the totals are printed;
\* the division by n_reads of line 306 raises when no read was seen.
Finish ==
    /\ pc = "pass2_next"
    /\ fileIdx = Len(pass2list)
    /\ tempdir' = "removed"
    /\ IF n_reads = 0
       THEN pc' = "zero_division" /\ UNCHANGED report
       ELSE /\ report' = Append(report,
                             [n_reads |-> n_reads, n_bp |-> n_bp,
                              written_reads |-> written_reads,
                              written_bp |-> written_bp,
                              save_pass2_total |-> save_pass2_total,
                              removed |-> n_reads - written_reads,
                              trimmed_reads |-> trimmed_reads])
            /\ pc' = "done"
    /\ UNCHANGED << args, ct, trimmerVars, units, cur, fileIdx, pass2list,
                    stores, sinks, outfiles, written_bp, written_reads,
                    save_pass2_total, n_start, nraw, histVars >>

Next ==
    \/ Startup
    \/ OpenInput
    \/ ReadInput
    \/ Examine
    \/ Yield
    \/ CloseInput
    \/ BeginPass2
    \/ OpenStore
    \/ UnlinkStore
    \/ Finish

Spec == Init /\ [][Next]_vars

\* ------------------------------------------------------------ properties
Names(log) == {log[i] : i \in DOMAIN log}

\* The reads the pass-1 reader handed to the Trimmer, unit after unit.
RECURSIVE Flatten(_)
Flatten(us) == IF us = <<>> THEN <<>> ELSE Head(us).reads \o Flatten(Tail(us))

DeliveredReads == Flatten(delivered)
DeliveredNames == {DeliveredReads[i].name : i \in DOMAIN DeliveredReads}

Occurrences(log, x) == Cardinality({i \in DOMAIN log : log[i] = x})
Emissions(x) == Cardinality({i \in DOMAIN outlog : outlog[i].name = x})
EmissionsIn(x, pass) ==
    Cardinality({i \in DOMAIN outlog :
                   outlog[i].name = x /\ outlog[i].pass = pass})
EmittedIn(pass) == Cardinality({i \in DOMAIN outlog : outlog[i].pass = pass})

\* C1: a unit handed to the Trimmer is deferred (every member consumed, every
\* original read appended to the spill file, n_saved raised per member,
\* nothing emitted) exactly when a spill sink is present and some member's
\* median abundance, taken before the unit is consumed, is strictly below
\* normalize_limit.
C1_DeferralIff ==
    [][ n_reads' # n_reads =>
          LET reads == Head(units).reads
              cleaned == [i \in DOMAIN reads |->
                            [j \in DOMAIN reads[i].sequence |->
                               IF reads[i].sequence[j] = "N" THEN "A"
                               ELSE reads[i].sequence[j]]]
              sink == (pc = "pass1")
              low == \E i \in DOMAIN reads :
                       get_median_count(ct, cleaned[i]) < args.normalize_limit
              after == IF Len(reads) = 2
                       THEN consume(consume(ct, cleaned[1]), cleaned[2])
                       ELSE consume(ct, cleaned[1])
              deferred ==
                  /\ ct' = after
                  /\ stores'[pass2list[fileIdx].store].entries =
                        stores[pass2list[fileIdx].store].entries
                          \o [i \in DOMAIN reads |-> write_record(reads[i])]
                  /\ n_saved' = n_saved + Len(reads)
                  /\ sinks' = sinks
                  /\ cur'.todo = <<>>
          IN deferred <=> (sink /\ low) ]_vars

\* Some unit was deferred in pass 1 and some low-coverage unit met no sink.
C1_Witness == n_saved > 0 /\ n_skipped > 0

\* The read named x is still to be written: the Trimmer holds it, the reader
\* is about to yield it, or it lies in a spill file.
Held(x) ==
    \/ \E i \in DOMAIN cur.todo : cur.todo[i].read.name = x
    \/ \E i \in DOMAIN units : \E j \in DOMAIN units[i].reads :
          units[i].reads[j].name = x
    \/ \E k \in DOMAIN stores : \E i \in DOMAIN stores[k].entries :
          parse_record(stores[k].entries[i]).name = x

\* C2, as stated: every read delivered by the pass-1 reader is written to an
\* output sink at most once at any time and exactly once when the run is
\* over, and until it is written it is not lost; a read emitted in pass 1 is
\* never spilled, a spilled read is spilled once and is not emitted in
\* pass 1, and nothing else is ever written.
C2_ExactlyOnce ==
    /\ \A i \in DOMAIN outlog : outlog[i].name \in DeliveredNames
    /\ \A x \in DeliveredNames :
         /\ Emissions(x) <= 1
         /\ Emissions(x) = 0 => Held(x)
         /\ Occurrences(spilllog, x) <= 1
         /\ EmissionsIn(x, "pass1") = 1 => x \notin Names(spilllog)
         /\ x \in Names(spilllog) => EmissionsIn(x, "pass1") = 0
         /\ pc = "done" => Emissions(x) = 1
         /\ (pc = "done" /\ x \in Names(spilllog)) => EmissionsIn(x, "pass2") = 1

\* A finished run in which one read went out in pass 1 and another in pass 2.
C2_Witness ==
    /\ pc = "done"
    /\ EmittedIn("pass1") > 0
    /\ EmittedIn("pass2") > 0

\* C3: the two members of a pair read in pass 1 take the same branch: never is
\* one emitted in pass 1 and the other spilled, and once the unit is finished
\* both are spilled or both were emitted in pass 1.
C3_PairAtomicity ==
    \A u \in DOMAIN delivered :
      delivered[u].is_pair =>
        LET a == delivered[u].reads[1].name
            b == delivered[u].reads[2].name
            spilled(x) == x \in Names(spilllog)
            out1(x) == EmissionsIn(x, "pass1") > 0
        IN /\ ~(out1(a) /\ spilled(b))
           /\ ~(out1(b) /\ spilled(a))
           /\ (u < Len(delivered) \/ cur.todo = <<>>) =>
                 \/ spilled(a) /\ spilled(b)
                 \/ out1(a) /\ out1(b)

\* A pair was spilled whole although its first member alone had high coverage
\* (the loaded table had consumed that very sequence, so its median was 1).
C3_Witness ==
    /\ args.loadtable /\ args.normalize_limit = 1
    /\ \E u \in DOMAIN delivered :
         /\ delivered[u].is_pair
         /\ u = 1
         /\ delivered[u].reads[1].sequence = LoadedRead
         /\ delivered[u].reads[1].name \in Names(spilllog)
         /\ delivered[u].reads[2].name \in Names(spilllog)

\* C4: a read of length >= K is written with its original length or with a
\* length >= K; when the trim position the table reports is below K the read
\* is written unmodified.
C4_TrimFloor ==
    [][ outlog' # outlog =>
          LET e == outlog'[Len(outlog')]
              orig == e.original
              trim_at == trim_on_abundance(ct, Head(cur.todo).seq, args.cutoff)
          IN /\ Len(orig.sequence) >= ksize
             /\ \/ Len(e.written.sequence) = Len(orig.sequence)
                \/ Len(e.written.sequence) >= ksize
             /\ (cur.branch = "trim" /\ trim_at < ksize) => e.written = orig
             /\ sinks'[e.sink] = Append(sinks[e.sink], e.written) ]_vars

\* In pass 2 (where the table no longer changes) a read went through the trim
\* branch with a trim position below K and was written whole.
C4_Witness ==
    \E i \in DOMAIN outlog :
       /\ outlog[i].written = outlog[i].original
       /\ outlog[i].pass = "pass2" /\ ~args.variable_coverage
       /\ trim_on_abundance(ct, Clean(outlog[i].original.sequence),
                             args.cutoff) < ksize

\* C5: the countgraph changes only when the Trimmer defers a unit in pass 1;
\* the skip branch, the trim branch and the whole of pass 2 leave it as it
\* is, and no read is consumed twice.
C5_OracleFrame ==
    [][ /\ (pc # "start" /\ ct' # ct) =>
             /\ pc = "pass1"
             /\ cur.todo = <<>> /\ cur'.todo = <<>>
             /\ n_saved' = n_saved + Len(Head(units).reads)
             /\ outlog' = outlog
        /\ outlog' # outlog => ct' = ct
        /\ pc \in {"pass2_next", "pass2"} => ct' = ct
        /\ \A x \in Names(consumedLog') : Occurrences(consumedLog', x) = 1
      ]_vars

\* Pass 2 has handed out a read that pass 1 had consumed.
C5_Witness ==
    /\ consumedLog # <<>>
    /\ \E i \in DOMAIN outlog :
         outlog[i].pass = "pass2" /\ outlog[i].name \in Names(consumedLog)

\* C6, as stated: at the end of the run n_reads is the number of reads the
\* pass-1 readers delivered and n_bp their total length.
C6_SeenOnce ==
    pc = "done" =>
        /\ n_reads = Len(DeliveredReads)
        /\ n_bp = SumLen([i \in DOMAIN DeliveredReads |->
                            DeliveredReads[i].sequence])

\* C7: between units of pass 1 and at its end, n_reads is the number of reads
\* emitted in pass 1 plus n_saved; after pass 2, with no read skipped, n_saved
\* is the number of reads emitted in pass 2.
C7_Conservation ==
    /\ (pc \in {"pass1", "pass1_next"} /\ cur.todo = <<>>) =>
          n_reads = EmittedIn("pass1") + n_saved
    /\ (pc = "done" /\ n_skipped = 0) => n_saved = EmittedIn("pass2")

\* A finished run without skipped reads that emitted a read in pass 1 and
\* deferred another.
C7_Witness ==
    /\ pc = "done" /\ n_skipped = 0
    /\ EmittedIn("pass1") > 0
    /\ n_saved > 0

\* What the trim branch would do to the reads it holds under cutoff c, the
\* countgraph being what it is now.
TrimPositions(c) ==
    [i \in DOMAIN cur.todo |-> trim_on_abundance(ct, cur.todo[i].seq, c)]
TrimmedCount(c) ==
    Cardinality({i \in DOMAIN cur.todo :
        TrimOne(ct, cur.todo[i].read, cur.todo[i].seq, c).counted})
EmittedLength(c) ==
    SumLen([i \in DOMAIN cur.todo |->
        TrimOne(ct, cur.todo[i].read, cur.todo[i].seq, c).read.sequence])

\* C8, as stated: for the reads in the trim branch and the countgraph as it
\* is, a larger cutoff never counts fewer reads as trimmed and never emits
\* more bases.
C8_Monotone ==
    cur.branch = "trim" =>
        \A c1 \in CutoffRange : \A c2 \in CutoffRange :
            c1 <= c2 =>
                /\ TrimmedCount(c2) >= TrimmedCount(c1)
                /\ EmittedLength(c2) <= EmittedLength(c1)

\* C8, amended: a larger cutoff never moves a read's trim position to the
\* right, and when under the larger cutoff no read's trim position is below
\* K, it never counts fewer reads as trimmed and never emits more bases.
C8_MonotoneAboveFloor ==
    cur.branch = "trim" =>
        \A c1 \in CutoffRange : \A c2 \in CutoffRange :
            c1 <= c2 =>
                /\ \A i \in DOMAIN cur.todo :
                      TrimPositions(c2)[i] <= TrimPositions(c1)[i]
                /\ (\A i \in DOMAIN cur.todo : TrimPositions(c2)[i] >= ksize) =>
                      /\ TrimmedCount(c2) >= TrimmedCount(c1)
                      /\ EmittedLength(c2) <= EmittedLength(c1)

\* The trim branch holds a read that a larger cutoff cuts shorter, at or
\* above K.
C8_Witness ==
    /\ cur.branch = "trim"
    /\ \E c1 \in CutoffRange : \E c2 \in CutoffRange :
         /\ c1 < c2
         /\ \A i \in DOMAIN cur.todo : TrimPositions(c2)[i] >= ksize
         /\ EmittedLength(c2) < EmittedLength(c1)
         /\ TrimmedCount(c2) > TrimmedCount(c1)

\* Scenario A: K = 4, cutoff 2, normalize_limit 20, a new table, one file
\* holding the single read AAAACCCCAAAACCCC, default options; the run is over.
ScenarioADone ==
    /\ pc = "done"
    /\ args.K = 4 /\ args.cutoff = 2 /\ args.normalize_limit = 20
    /\ ~args.loadtable /\ ~args.variable_coverage /\ args.nfiles = 1
    /\ Len(delivered) = 1
    /\ ~delivered[1].is_pair
    /\ delivered[1].reads[1].sequence = ScenarioRead

ScenarioDeferred ==
    /\ n_saved = 1
    /\ spilllog = << delivered[1].reads[1].name >>
    /\ consumedLog = << delivered[1].reads[1].name >>
    /\ ct = consume(<< >>, ScenarioRead)
    /\ EmittedIn("pass1") = 0
    /\ EmittedIn("pass2") = 1

C10_PassThrough ==
    [][ /\ ( /\ n_reads' # n_reads
             /\ pc = "pass2"
             /\ args.variable_coverage
             /\ \E i \in DOMAIN Head(units).reads :
                   get_median_count(ct, Clean(Head(units).reads[i].sequence))
                     < args.normalize_limit ) =>
               /\ cur'.branch = "skip"
               /\ [i \in DOMAIN cur'.todo |-> cur'.todo[i].read]
                     = Head(units).reads
               /\ UNCHANGED << ct, n_saved, trimmed_reads, spilllog, stores,
                               n_skipped, bp_skipped, sinks >>
        /\ (cur.branch = "skip" /\ cur.todo # <<>>) =>
               LET read == Head(cur.todo).read
                   trimfp == pass2list[fileIdx].trimfp
               IN /\ sinks' = [sinks EXCEPT ![trimfp] = Append(@, read)]
                  /\ n_skipped' = n_skipped + 1
                  /\ bp_skipped' = bp_skipped + Len(read.sequence)
                  /\ cur'.todo = Tail(cur.todo)
                  /\ UNCHANGED << ct, n_saved, trimmed_reads, spilllog, stores >>
      ]_vars

\* Two reads with quality strings were skipped.
C10_Witness == n_skipped = 2 /\ args.fastq /\ bp_skipped > 2

\* C11: without --variable-coverage (do_trim_low_abund true) no read ever
\* enters the skip branch: n_skipped and bp_skipped are 0 where pass 2 begins
\* and stay 0 to the end of the run, and the assertions of lines 270-271
\* never fail.
C11_NoSkipWhenTrimming ==
    ~args.variable_coverage =>
        /\ n_skipped = 0 /\ bp_skipped = 0
        /\ cur.branch # "skip"
        /\ pc # "assertion_error"

\* Without --variable-coverage pass 2 has begun after a low-coverage read was
\* deferred, and that read, still below the limit, has been written.
C11_Witness ==
    /\ ~args.variable_coverage
    /\ pc = "pass2"
    /\ n_saved > 0
    /\ \E i \in DOMAIN outlog :
         /\ outlog[i].pass = "pass2"
         /\ get_median_count(ct, Clean(outlog[i].original.sequence))
               < args.normalize_limit

\* A step that creates, truncates or appends to spill file i / that opens it
\* for reading.
StoreWritten(i) ==
    \/ i \notin DOMAIN stores
    \/ /\ i \in DOMAIN stores
       /\ \/ stores'[i].state = "writing" /\ stores[i].state # "writing"
          \/ /\ stores'[i].entries # stores[i].entries
             /\ stores'[i].state # "deleted"
StoreOpenedForReading(i) ==
    /\ i \in DOMAIN stores
    /\ stores'[i].state = "reading" /\ stores[i].state # "reading"

\* C12: every write to a spill file happens in pass 1, before any spill file
\* was read or removed; a spill file is opened for reading only in pass 2,
\* after pass 1 has gone through every input file and closed every spill
\* file; no spill file is open for writing during pass 2 and none is read
\* during pass 1.
C12_PhaseExclusivity ==
    [][ /\ \A i \in DOMAIN stores' :
             /\ StoreWritten(i) =>
                   /\ pc \in {"pass1_next", "pass1"}
                   /\ \A j \in DOMAIN stores :
                         stores[j].state \in {"writing", "closed"}
             /\ StoreOpenedForReading(i) =>
                   /\ pc = "pass2_next"
                   /\ Len(pass2list) = args.nfiles
                   /\ \A j \in DOMAIN stores : stores[j].state # "writing"
        /\ pc \in {"pass1_next", "pass1"} =>
             \A j \in DOMAIN stores : stores[j].state \in {"writing", "closed"}
        /\ pc \in {"pass2_next", "pass2"} =>
             \A j \in DOMAIN stores : stores[j].state # "writing"
      ]_vars

\* The second of two spill files, each written in pass 1, is being read.
C12_Witness ==
    /\ pc = "pass2" /\ fileIdx = 2
    /\ Len(stores) = 2
    /\ stores[2].state = "reading"
    /\ \E x \in Names(spilllog) : x.file = 1
    /\ \E x \in Names(spilllog) : x.file = 2

\* The order of a spill file's life: created and open for writing in pass 1,
\* closed at the end of its input file, read in pass 2, removed.
LifecycleSteps ==
    { << "writing", "closed" >>, << "closed", "reading" >>,
      << "reading", "deleted" >> }

\* C13, as stated: every input file has a spill file of its own, which goes
\* from created/written to closed to read to deleted in that order, no step
\* skipped or repeated; when the run is over every spill file is deleted, and
\* the temp directory is removed only after that.
C13_StoreLifecycle ==
    [][ /\ Len(stores') = Len(pass2list')
        /\ \A i \in DOMAIN stores' :
             IF i \notin DOMAIN stores
             THEN stores'[i].state = "writing"
             ELSE \/ stores'[i].state = stores[i].state
                  \/ << stores[i].state, stores'[i].state >> \in LifecycleSteps
        /\ (pc' = "done" \/ tempdir' = "removed") =>
             \A i \in DOMAIN stores' : stores'[i].state = "deleted"
      ]_vars

\* The read the Trimmer will write next, if that is already determined.
NextOut ==
    IF cur.todo # <<>> THEN {Head(cur.todo).read.name}
    ELSE IF units # <<>> THEN {Head(units).reads[1].name}
    ELSE {}

\* C14, as stated: for every pair the pass-1 reader delivered, in every output
\* sink the first mate is directly followed by the second mate (or it is the
\* last record and the second mate is the very next read to be written), the
\* second mate is directly preceded by the first, as long as the pair is not
\* written it is still held, and when the run is over both are in a sink;
\* this whether the pair went out in pass 1 or was deferred and replayed as
\* two single reads, per-file sinks or one sink.
C14_PairsAdjacent ==
    \A u \in DOMAIN delivered :
      delivered[u].is_pair =>
        LET a == delivered[u].reads[1].name
            b == delivered[u].reads[2].name
        IN /\ \A k \in DOMAIN sinks : \A i \in DOMAIN sinks[k] :
                /\ sinks[k][i].name = a =>
                      IF i < Len(sinks[k]) THEN sinks[k][i + 1].name = b
                      ELSE b \in NextOut
                /\ sinks[k][i].name = b =>
                      i > 1 /\ sinks[k][i - 1].name = a
           /\ Emissions(a) = 0 => Held(a) /\ Held(b)
           /\ pc = "done" =>
                \E k \in DOMAIN sinks : \E i \in DOMAIN sinks[k] :
                   sinks[k][i].name = a

\* C15, as stated: when a filename is given twice the run ends with exit code
\* 1 and at no time has a temp directory, a spill file, an output file, a
\* countgraph or a Trimmer been created.
C15_DuplicateRejected ==
    args.dup =>
        /\ pc \in {"start", "exit1"}
        /\ tempdir = "none"
        /\ stores = <<>> /\ pass2list = <<>>
        /\ outfiles = {}
        /\ ct = << >>
        /\ n_reads = 0 /\ outlog = <<>>

\* Reads of input file f the Trimmer deferred / examined in pass 1.
DeferredFrom(f) == Cardinality({x \in Names(spilllog) : x.file = f})
ExaminedFrom(f) ==
    Cardinality({i \in DOMAIN DeliveredReads : DeliveredReads[i].name.file = f})

\* C16, as stated: the deferred total that main reports and uses for the
\* number of passes is the number of reads deferred over all files (n_saved),
\* and the line printed for a file gives the number N of reads deferred from
\* that file alone and the number M of reads examined from it.
C16_DeferredAggregation ==
    \A i \in DOMAIN report :
       IF "file" \in DOMAIN report[i]
       THEN /\ report[i].save_pass2 = DeferredFrom(report[i].file)
            /\ report[i].n = ExaminedFrom(report[i].file)
       ELSE /\ report[i].save_pass2_total = n_saved
            /\ n_saved = Len(spilllog)

\* C17, as stated: at any time written_reads is the number of reads written
\* to the output sinks over both passes and written_bp the sum of the lengths
\* of the reads written over both passes, and the final report prints these.
C17_WrittenCounters ==
    /\ written_reads = Len(outlog)
    /\ written_bp = SumLen([i \in DOMAIN outlog |-> outlog[i].written.sequence])
    /\ \A i \in DOMAIN report :
          "written_bp" \in DOMAIN report[i] =>
              /\ report[i].written_reads = written_reads
              /\ report[i].written_bp = written_bp

\* Reads the pass-1 reader handed to the Trimmer that are in no output sink.
NeverWritten ==
    Cardinality({i \in DOMAIN DeliveredReads :
                   Emissions(DeliveredReads[i].name) = 0})

\* C18, as stated: the number main reports as removed, n_reads minus
\* written_reads, is not negative and is the number of reads the Trimmer saw
\* that were written to no sink.
C18_RemovedCount ==
    \A i \in DOMAIN report :
       "removed" \in DOMAIN report[i] =>
           /\ report[i].removed >= 0
           /\ report[i].removed = NeverWritten

OriginalOf(x) ==
    DeliveredReads[CHOOSE i \in DOMAIN DeliveredReads :
                      DeliveredReads[i].name = x]

\* C20: every record in an output sink carries the name of a delivered read,
\* a sequence that is a prefix of that read's sequence as it was read ('N'
\* kept) and, if there is a quality string, the quality cut to the same
\* length; every record in a spill file is a delivered read unchanged.
C20_CleaningForEstimationOnly ==
    /\ \A k \in DOMAIN sinks : \A i \in DOMAIN sinks[k] :
          LET w == sinks[k][i] IN
          /\ w.name \in DeliveredNames
          /\ Len(w.sequence) <= Len(OriginalOf(w.name).sequence)
          /\ w.sequence = SubSeq(OriginalOf(w.name).sequence, 1, Len(w.sequence))
          /\ w.hasq = OriginalOf(w.name).hasq
          /\ w.quality = IF w.hasq
                         THEN SubSeq(OriginalOf(w.name).quality, 1,
                                     Len(w.sequence))
                         ELSE <<>>
    /\ \A k \in DOMAIN stores : \A i \in DOMAIN stores[k].entries :
          LET r == parse_record(stores[k].entries[i]) IN
          /\ r.name \in DeliveredNames
          /\ r = OriginalOf(r.name)

\* A read with an N was cut and written with the N in place, and a read with
\* an N lies in a spill file.
C20_Witness ==
    /\ \E k \in DOMAIN sinks : \E i \in DOMAIN sinks[k] :
          /\ sinks[k][i].sequence = << "A", "N" >>
          /\ Len(OriginalOf(sinks[k][i].name).sequence) = 4
    /\ \E k \in DOMAIN stores : \E i \in DOMAIN stores[k].entries :
          "N" \in Range(parse_record(stores[k].entries[i]).sequence)

\* Reads written so far with a sequence shorter than the one handed in.
Shortened(log) ==
    Cardinality({i \in DOMAIN log :
        Len(log[i].written.sequence) < Len(log[i].original.sequence)})

\* C21: after every step trimmed_reads is the number of reads written so far
\* whose written sequence is strictly shorter than the sequence handed to the
\* Trimmer; a read whose trim position is its full length or is below K
\* leaves trimmed_reads as it is and is written whole.
C21_TrimmedCount ==
    [][ /\ trimmed_reads' = Shortened(outlog')
        /\ (outlog' # outlog /\ cur.branch = "trim") =>
              LET seq == Head(cur.todo).seq
                  trim_at == trim_on_abundance(ct, seq, args.cutoff)
              IN (trim_at = Len(seq) \/ trim_at < ksize) =>
                    /\ trimmed_reads' = trimmed_reads
                    /\ outlog'[Len(outlog')].written = Head(cur.todo).read
      ]_vars

\* One read was cut and counted, another went through the trim branch with
\* its trim position at its full length and was not counted.
C21_Witness ==
    /\ trimmed_reads = 1
    /\ \E i \in DOMAIN outlog :
          Len(outlog[i].written.sequence) < Len(outlog[i].original.sequence)
    /\ \E i \in DOMAIN outlog :
          /\ outlog[i].written = outlog[i].original
          /\ ~is_low_coverage(ct, << Clean(outlog[i].original.sequence) >>,
                              args.normalize_limit)
          /\ trim_on_abundance(ct, Clean(outlog[i].original.sequence),
                                args.cutoff) = Len(outlog[i].original.sequence)

\* C22: in every mode, --variable-coverage included, no unit takes the skip
\* branch during pass 1: up to and including the point where pass 2 begins
\* n_skipped and bp_skipped are 0, the assertions of lines 270-271 never
\* fail, and the skip counters change only in steps of pass 2.
C22_DeferralPrecedence ==
    [][ /\ pc' \in {"start", "pass1_next", "pass1"} =>
              /\ n_skipped' = 0 /\ bp_skipped' = 0
              /\ cur'.branch # "skip"
        /\ pc' # "assertion_error"
        /\ (n_skipped' # n_skipped \/ bp_skipped' # bp_skipped) => pc = "pass2"
      ]_vars

\* With --variable-coverage a read deferred in pass 1 was skipped in pass 2.
C22_Witness ==
    /\ args.variable_coverage
    /\ pc = "pass2"
    /\ n_skipped > 0
    /\ \E i \in DOMAIN outlog :
          /\ outlog[i].pass = "pass2"
          /\ outlog[i].name \in Names(spilllog)
          /\ outlog[i].written = outlog[i].original

====
